---- MODULE Spec2Model ----
(***************************************************************************)
(* cucumber-rust: the step registry (Steps), the scenario execution loop   *)
(* (run_scenario), the scenario filter (run_scenarios) and the file loop   *)
(* (run) of src/src/lib.rs, as a state machine.                            *)
(*                                                                         *)
(* Strings are sequences of symbols, so that ends_with, replace and the    *)
(* search of a pattern are computed, not assumed.  A Rust Option is a      *)
(* record with a "some" flag.                                              *)
(***************************************************************************)
EXTENDS Integers, Sequences, FiniteSets, TLC

VARIABLES
    feature_files,       \* run(): the list of files, each parsed or not
    options,             \* cli::CliOptions: tag, filter
    before_fns,          \* Option<&[HelperFn]>
    after_fns,           \* Option<&[HelperFn]>
    pc,                  \* where run() stands
    fi,                  \* index of the file of the "for path in feature_files" loop
    ri,                  \* 0: the feature's own scenarios, k: those of its k-th rule
    si,                  \* index of the scenario of run_scenarios' loop
    ei,                  \* 0: no example, k: the k-th row of examples.table.rows
    ti,                  \* index of the step of run_scenario's loop
    run_is_success,      \* is_success of run()
    scenarios_is_success,\* is_success of run_scenarios()
    is_success,          \* is_success of run_scenario()
    is_skipping,         \* is_skipping of run_scenario()
    world,               \* the State (T) of the running scenario execution
    exec,                \* number of run_scenario calls made so far
    trace,               \* what the run did, in order: OutputVisitor calls and
                         \* calls of user functions (handlers, hooks, T::default)
    fn_call              \* a function of lib.rs called on its own: which, its
                         \* arguments and, once it returned, what it returned

vars == <<fn_call, feature_files, options, before_fns, after_fns, pc, fi, ri, si, ei, ti,
          run_is_success, scenarios_is_success, is_success, is_skipping,
          world, exec, trace>>

(***************************************************************************)
(* Bounds of the inputs.                                                   *)
(***************************************************************************)
MaxSteps == 3
MaxScenarios == 2
MaxFiles == 2
MaxRegistries == 2
MaxText == 3
MaxRule == 3

(***************************************************************************)
(* Option, strings.                                                        *)
(***************************************************************************)
None == [some |-> FALSE]
Some(v) == [some |-> TRUE, v |-> v]

\* str::ends_with
EndsWith(s, suffix) ==
    /\ Len(s) >= Len(suffix)
    /\ SubSeq(s, Len(s) - Len(suffix) + 1, Len(s)) = suffix

\* the places where pat occurs in text
Occurrences(text, pat) ==
    {i \in 1..(Len(text) - Len(pat) + 1) : SubSeq(text, i, i + Len(pat) - 1) = pat}

\* str::replace: every non-overlapping occurrence of key, from the left
RECURSIVE Replace(_, _, _)
Replace(text, key, value) ==
    IF Len(text) < Len(key) \/ Len(key) = 0 THEN text
    ELSE IF SubSeq(text, 1, Len(key)) = key
         THEN value \o Replace(SubSeq(text, Len(key) + 1, Len(text)), key, value)
         ELSE <<Head(text)>> \o Replace(Tail(text), key, value)

Min(a, b) == IF a < b THEN a ELSE b

(***************************************************************************)
(* Regex of the regex crate, for the patterns used here: a literal that    *)
(* is searched for (not anchored), optionally followed by one group that  *)
(* takes the rest of the text (dot star), or by one group that may be     *)
(* left out (a literal in brackets, with a question mark).                 *)
(***************************************************************************)
Pattern(lit, group) == [lit |-> lit, group |-> group, opt |-> None]
PatternOpt(lit, opt) == [lit |-> lit, group |-> FALSE, opt |-> Some(opt)]

\* Regex::is_match
IsMatch(regex, text) == Occurrences(text, regex.lit) # {}

\* Regex::captures of a text the regex matches: for every group the part of
\* the text it matched, if it took part; group 0 is the leftmost match
RegexCaptures(regex, text) ==
    LET at == CHOOSE i \in Occurrences(text, regex.lit) :
                  \A j \in Occurrences(text, regex.lit) : i <= j
        after == at + Len(regex.lit)
        rest == SubSeq(text, after, Len(text))
    IN IF regex.group
       THEN <<Some(SubSeq(text, at, Len(text))), Some(rest)>>
       ELSE IF regex.opt.some
            THEN IF /\ Len(rest) >= Len(regex.opt.v)
                    /\ SubSeq(rest, 1, Len(regex.opt.v)) = regex.opt.v
                 THEN <<Some(regex.lit \o regex.opt.v), Some(regex.opt.v)>>
                 ELSE <<Some(regex.lit), None>>
            ELSE <<Some(regex.lit)>>

\* a slip: the groups that took no part are left out (flatten)
Captures_flatten(regex, text) ==
    LET TookPart(m) == m.some
        found == SelectSeq(RegexCaptures(regex, text), TookPart)
    IN [i \in 1..Len(found) |-> found[i].v]

\* the captures as test_type maps them: the text of the group, or the
\* empty string (unwrap_or_default)
Captures(regex, text) ==
    LET found == RegexCaptures(regex, text)
    IN [i \in 1..Len(found) |-> IF found[i].some THEN found[i].v ELSE <<>>]

(***************************************************************************)
(* The reserved message of skip!() and the message unimplemented!() makes  *)
(* of it.                                                                  *)
(***************************************************************************)
SkipMessage == <<"cucumber", "test", "skipped">>
UnimplementedPrefix == <<"not", "yet", "implemented:">>
SkipPayload == UnimplementedPrefix \o SkipMessage

(***************************************************************************)
(* Handlers: what a call of each does.  Every handler is handed the State  *)
(* and counts its call in it.                                              *)
(***************************************************************************)
Returns == [panics |-> FALSE, payload |-> <<>>, location |-> <<>>,
            stdout |-> <<>>, stderr |-> <<>>]
Panics(payload, location, out, err) ==
    [panics |-> TRUE, payload |-> payload, location |-> location,
     stdout |-> out, stderr |-> err]

HandlerBody(h) ==
    CASE h = "goes_wrong" ->
             Panics(<<"This", "is", "my", "custom", "panic", "message">>,
                    <<"cucumber.rs", "85">>, <<"Something to stdout">>,
                    <<"Something to stderr">>)
      [] h = "skips" -> Panics(SkipPayload, <<"cucumber.rs", "skip">>, <<>>, <<>>)
      [] h = "panics_sentinel" ->
             Panics(SkipMessage, <<"cucumber.rs", "panic">>, <<>>, <<>>)
      [] h = "panics_after_sentinel" ->
             Panics(SkipMessage \o <<"!">>, <<"cucumber.rs", "panic">>, <<>>, <<>>)
      [] OTHER -> Returns

(***************************************************************************)
(* Steps<T>: six bags.  An exact bag maps a text to its handler; a regex   *)
(* bag is a set of (regex, handler) entries, a HashMap whose order of      *)
(* iteration is not fixed.                                                 *)
(***************************************************************************)
Bag(pairs) == [k \in {p[1] : p \in pairs} |-> (CHOOSE p \in pairs : p[1] = k)[2]]

TheSteps ==
    [given |-> Bag({<<<<"p">>, "a_thing">>}),
     when  |-> Bag({<<<<"f">>, "goes_wrong">>,
                     <<<<"s">>, "skips">>,
                     <<<<"e">>, "panics_sentinel">>,
                     <<<<"o">>, "panics_after_sentinel">>}),
     then  |-> Bag({<<<<"p">>, "another_thing">>}),
     regex |-> [given |-> {<<Pattern(<<"i", "s">>, TRUE), "thing_is">>,
                           <<Pattern(<<"p">>, FALSE), "thing_regex">>},
                when  |-> {},
                then  |-> {<<Pattern(<<"r">>, FALSE), "reverse_is">>,
                           <<Pattern(<<"r">>, TRUE), "makes_sense">>}]]

test_bag_for(steps, ty) ==
    CASE ty = "Given" -> steps.given
      [] ty = "When"  -> steps.when
      [] ty = "Then"  -> steps.then

regex_bag_for(steps, ty) ==
    CASE ty = "Given" -> steps.regex.given
      [] ty = "When"  -> steps.regex.when
      [] ty = "Then"  -> steps.regex.then

Normal(t) == [kind |-> "Normal", t |-> t, matches |-> <<>>]
Regex(t, matches) == [kind |-> "Regex", t |-> t, matches |-> matches]

\* a slip: the regex bag is scanned first, the exact bag only when nothing matches
test_type_regex_first(steps, step) ==
    LET found == {e \in regex_bag_for(steps, step.ty) : IsMatch(e[1], step.value)}
    IN IF found # {}
       THEN {Some(Regex(e[2], Captures(e[1], step.value))) : e \in found}
       ELSE IF step.value \in DOMAIN test_bag_for(steps, step.ty)
            THEN {Some(Normal(test_bag_for(steps, step.ty)[step.value]))}
            ELSE {None}

\* Steps::test_type: every Option<TestCaseType> a call may return.  The
\* exact bag is looked up first; otherwise find() returns the first entry of
\* the regex bag that matches, whichever the HashMap's iteration meets first.
test_type(steps, step) ==
    IF step.value \in DOMAIN test_bag_for(steps, step.ty)
    THEN {Some(Normal(test_bag_for(steps, step.ty)[step.value]))}
    ELSE LET found == {e \in regex_bag_for(steps, step.ty) : IsMatch(e[1], step.value)}
         IN IF found = {} THEN {None}
            ELSE {Some(Regex(e[2], Captures(e[1], step.value))) : e \in found}

(***************************************************************************)
(* Steps::combine.  HashMap::extend inserts every entry of the other map:  *)
(* a key that is there already gets the other map's value.                 *)
(***************************************************************************)
\* Steps::default(): six empty bags
DefaultSteps ==
    [given |-> Bag({}), when |-> Bag({}), then |-> Bag({}),
     regex |-> [given |-> {}, when |-> {}, then |-> {}]]

\* HashableRegex: two keys are the same key when they are the same source
HashableRegexEq(a, b) == a = b

\* a slip: an entry that is there already is kept (entry().or_insert())
extend_keep(bag, other) ==
    [k \in DOMAIN bag \cup DOMAIN other |-> IF k \in DOMAIN bag THEN bag[k] ELSE other[k]]

\* TestBag::extend
extend(bag, other) ==
    [k \in DOMAIN bag \cup DOMAIN other |-> IF k \in DOMAIN other THEN other[k] ELSE bag[k]]

\* RegexBag::extend
extend_regex(bag, other) ==
    {e \in bag : ~\E o \in other : HashableRegexEq(o[1], e[1])} \cup other

\* the body of "for steps in iter"
combine_one(combined, steps) ==
    [given |-> extend(combined.given, steps.given),
     when  |-> extend(combined.when, steps.when),
     then  |-> extend(combined.then, steps.then),
     regex |-> [given |-> extend_regex(combined.regex.given, steps.regex.given),
                when  |-> extend_regex(combined.regex.when, steps.regex.when),
                then  |-> extend_regex(combined.regex.then, steps.regex.then)]]

RECURSIVE combine_from(_, _, _)
combine_from(combined, iter, i) ==
    IF i > Len(iter) THEN combined
    ELSE combine_from(combine_one(combined, iter[i]), iter, i + 1)

combine(iter) == combine_from(DefaultSteps, iter, 1)

(***************************************************************************)
(* gherkin: Step, Scenario, Rule, Feature, as the parser hands them over.  *)
(***************************************************************************)
Step(ty, value) == [ty |-> ty, value |-> value, table |-> None, docstring |-> None]
Table(header, rows) == [header |-> header, rows |-> rows]
Examples(header, rows) == [table |-> Table(header, rows)]
Scenario(name, tags, steps, examples) ==
    [name |-> name, tags |-> tags, steps |-> steps, examples |-> examples]
Rule(name, scenarios) == [name |-> name, scenarios |-> scenarios]
Feature(background, scenarios, rules) ==
    [background |-> background, scenarios |-> scenarios, rules |-> rules]
\* Feature::try_from: Ok(feature) or Err(e)
Parsed(feature) == [ok |-> TRUE, feature |-> feature]
ParseError == [ok |-> FALSE]

(***************************************************************************)
(* interpolate_outline_variables                                           *)
(***************************************************************************)
\* a slip: the key is the name, without the angle brackets
Keys_bare(header) == header

\* "<name>" for every name of the header
Keys(header) == [i \in 1..Len(header) |-> <<"<">> \o header[i] \o <<">">>]

\* the closure replace_vars: keys.iter().zip(example), each pair applied in turn
RECURSIVE replace_vars(_, _, _, _)
replace_vars(text, keys, example, i) ==
    IF i > Min(Len(keys), Len(example)) THEN text
    ELSE replace_vars(Replace(text, keys[i], example[i]), keys, example, i + 1)

interpolate_outline_variables(step, header, example) ==
    LET keys == Keys(header)
        rv(text) == replace_vars(text, keys, example, 1)
    IN [ty |-> step.ty,
        value |-> rv(step.value),
        table |-> IF step.table.some
                  THEN Some(Table(step.table.v.header,
                                  [r \in 1..Len(step.table.v.rows) |->
                                     [c \in 1..Len(step.table.v.rows[r]) |->
                                        rv(step.table.v.rows[r][c])]]))
                  ELSE None,
        docstring |-> IF step.docstring.some THEN Some(rv(step.docstring.v)) ELSE None]

(***************************************************************************)
(* tag_rule_applies.  A rule is a string whose symbols are words and the   *)
(* space; a tag is a word.                                                 *)
(***************************************************************************)
\* str::split(' '): the pieces between the spaces, empty ones as well
RECURSIVE Split(_, _)
Split(s, sep) ==
    LET at == {i \in 1..Len(s) : s[i] = sep}
    IN IF at = {} THEN <<s>>
       ELSE LET k == CHOOSE i \in at : \A j \in at : i <= j
            IN <<SubSeq(s, 1, k - 1)>> \o Split(SubSeq(s, k + 1, Len(s)), sep)

tag_rule_applies(scenario, rule) ==
    IF scenario.tags.some
    THEN LET tags == scenario.tags.v
             rule_chunks == Split(rule, " ")
         IN \A n \in 1..Len(rule_chunks) :
               \/ rule_chunks[n] = <<"and">>
               \/ rule_chunks[n] = <<"or">>
               \/ \E i \in 1..Len(tags) : <<tags[i]>> = rule_chunks[n]
    ELSE TRUE

\* before! and after!: the calls of the closure that the function made by
\* the macro makes; the form without a rule is the form with the rule ""
before_fn(tagrule, scenario) ==
    LET tag_rule == IF tagrule.some THEN tagrule.v ELSE <<>>
    IN IF tag_rule_applies(scenario, tag_rule)
       THEN <<"scenario_closure">>
       ELSE <<>>

(***************************************************************************)
(* TestResult; MutexPoisoned is never built by this file.                  *)
(***************************************************************************)
Result(kind, payload, location, out, err) ==
    [kind |-> kind, payload |-> payload, location |-> location,
     stdout |-> out, stderr |-> err]
Pass == Result("Pass", <<>>, <<>>, <<>>, <<>>)
Skipped == Result("Skipped", <<>>, <<>>, <<>>, <<>>)
Unimplemented == Result("Unimplemented", <<>>, <<>>, <<>>, <<>>)
Fail(panic_info, out, err) ==
    Result("Fail", panic_info.payload, panic_info.location, out, err)
NoResult == Result("", <<>>, <<>>, <<>>, <<>>)

(***************************************************************************)
(* PanicTrap::run: the work's panic becomes Err(PanicDetails); what the    *)
(* work printed comes back in stdout and stderr.                           *)
(***************************************************************************)
PanicTrapRun(work) ==
    [result |-> IF work.panics
                THEN [ok |-> FALSE,
                      panic_info |-> [payload |-> work.payload, location |-> work.location]]
                ELSE [ok |-> TRUE, panic_info |-> [payload |-> <<>>, location |-> <<>>]],
     stdout |-> work.stdout,
     stderr |-> work.stderr]

(***************************************************************************)
(* Steps::run_test                                                         *)
(***************************************************************************)
\* a slip: the message compared with ==
IsSkipPayload_exact(payload) == payload = SkipMessage

\* does this panic ask to skip the scenario?
IsSkipPayload(payload) == EndsWith(payload, SkipMessage)

\* the match at the end of run_test
Classify(test_result) ==
    IF test_result.result.ok THEN Pass
    ELSE IF IsSkipPayload(test_result.result.panic_info.payload)
         THEN Skipped
         ELSE Fail(test_result.result.panic_info, test_result.stdout, test_result.stderr)

\* The State: every handler call is counted in it.
DefaultWorld == [calls |-> 0]
Touch(w) == [calls |-> w.calls + 1]

\* One call of run_test with the test case test_type returned: the result,
\* the State after it and the handler call made, if any, with what it was
\* made for ("step": the step as written, "interpolated_step") and what
\* run_test made of it.
run_test(tt, w, step, of) ==
    IF ~tt.some
    THEN [result |-> None, world |-> w, called |-> <<>>]
    ELSE LET result == Classify(PanicTrapRun(HandlerBody(tt.v.t)))
         IN [result |-> Some(result),
             world |-> Touch(w),
             called |-> <<[handler |-> tt.v.t, kind |-> tt.v.kind,
                           matches |-> tt.v.matches, text |-> step.value,
                           of |-> of, result |-> result]>>]

(***************************************************************************)
(* Steps::run_scenario, the body of "for step in steps" after run_test:    *)
(* what is reported for the step and what becomes of the two flags.        *)
(***************************************************************************)
Reported(out, notice, skipping, success) ==
    [out |-> out, notice |-> notice, is_skipping |-> skipping, is_success |-> success]

\* a slip: a step without handler fails the scenario
StepResult_unimplemented_fails(result, skipping, success) ==
    IF ~result.some
    THEN Reported(Unimplemented, ~skipping, TRUE, FALSE)
    ELSE IF skipping
         THEN Reported(Skipped, FALSE, skipping, success)
         ELSE CASE result.v.kind = "Pass" -> Reported(result.v, FALSE, FALSE, success)
                [] result.v.kind = "Fail" -> Reported(result.v, FALSE, TRUE, FALSE)
                [] OTHER -> Reported(result.v, TRUE, TRUE, success)

\* a slip: the None arm gives the notice without looking at is_skipping
StepResult_notice_always(result, skipping, success) ==
    IF ~result.some
    THEN Reported(Unimplemented, TRUE, TRUE, success)
    ELSE IF skipping
         THEN Reported(Skipped, FALSE, skipping, success)
         ELSE CASE result.v.kind = "Pass" -> Reported(result.v, FALSE, FALSE, success)
                [] result.v.kind = "Fail" -> Reported(result.v, FALSE, TRUE, FALSE)
                [] OTHER -> Reported(result.v, TRUE, TRUE, success)

\* a slip: the Fail arm gives the notice as the arm of the other results does
StepResult_fail_notifies(result, skipping, success) ==
    IF ~result.some
    THEN Reported(Unimplemented, ~skipping, TRUE, success)
    ELSE IF skipping
         THEN Reported(Skipped, FALSE, skipping, success)
         ELSE CASE result.v.kind = "Pass" -> Reported(result.v, FALSE, FALSE, success)
                [] result.v.kind = "Fail" -> Reported(result.v, TRUE, TRUE, FALSE)
                [] OTHER -> Reported(result.v, TRUE, TRUE, success)

StepResult(result, skipping, success) ==
    IF ~result.some
    THEN Reported(Unimplemented, ~skipping, TRUE, success)
    ELSE IF skipping
         THEN Reported(Skipped, FALSE, skipping, success)
         ELSE CASE result.v.kind = "Pass" -> Reported(result.v, FALSE, FALSE, success)
                [] result.v.kind = "Fail" -> Reported(result.v, FALSE, TRUE, FALSE)
                [] OTHER -> Reported(result.v, TRUE, TRUE, success)

(***************************************************************************)
(* Steps::run_scenarios: the two filters and the loop over the rows.       *)
(***************************************************************************)
Contains(seq, x) == \E i \in 1..Len(seq) : seq[i] = x

\* should_skip
ShouldSkip(tags, tag) ==
    IF tags.some /\ tag.some THEN ~Contains(tags.v, tag.v) ELSE FALSE

\* a slip: the name filter never rejects
FilterRejects_never(filter, name) == FALSE

\* "if let Some(ref regex) = options.filter { if !regex.is_match(..) { continue } }"
FilterRejects(filter, name) ==
    IF filter.some THEN ~IsMatch(filter.v, name) ELSE FALSE

\* a slip: the last result wins
Accumulate_last(acc, ok) == ok

\* "if !self.run_scenario(..) { is_success = false }", also in run()
Accumulate(acc, ok) == IF ~ok THEN FALSE ELSE acc

\* a slip: the loop over the rows ends after the first row
MoreRows_first_only(i, rows) == FALSE

\* "for example in &examples.table.rows": is there a row after row i?
MoreRows(i, rows) == i > 0 /\ i < Len(rows)

\* a slip: "break" for "continue"
AfterParseError_break(i, n) == n + 1

\* run(): the file the loop turns to after a parse error ("continue")
AfterParseError(i, n) == i + 1

(***************************************************************************)
(* A function called on its own: no call is made in a run of run().        *)
(***************************************************************************)
Call(fn, args) == [fn |-> fn, args |-> args, ret |-> <<>>]
NoCall == Call("", <<>>)

(***************************************************************************)
(* Where the run stands.                                                   *)
(***************************************************************************)
CurFeature == feature_files[fi].feature
CurScenarios ==
    IF ri = 0 THEN CurFeature.scenarios ELSE CurFeature.rules[ri].scenarios
CurScenario == CurScenarios[si]
CurRows == CurScenario.examples.v.table.rows
\* a slip: the scenario's own steps come first, the background's after them
StepsOf_own_first(feature, scenario) ==
    scenario.steps
        \o (IF feature.background.some THEN feature.background.v.steps ELSE <<>>)

\* feature.background.iter().map(|bg| bg.steps.iter()).flatten().chain(scenario.steps.iter())
StepsOf(feature, scenario) ==
    (IF feature.background.some THEN feature.background.v.steps ELSE <<>>)
        \o scenario.steps
CurSteps == StepsOf(CurFeature, CurScenario)
Fns(fns) == IF fns.some THEN fns.v ELSE <<>>

Event(e, x, t, res, arg) ==
    [ev |-> e, exec |-> x, file |-> fi, rule |-> ri, scen |-> si, row |-> ei,
     step |-> t, res |-> res, arg |-> arg]
\* a notification that is not about a scenario
Note(e) ==
    [ev |-> e, exec |-> 0, file |-> fi, rule |-> 0, scen |-> 0, row |-> 0,
     step |-> 0, res |-> NoResult, arg |-> <<>>]
\* a slip: the list is gone through from its end
Hooks_reversed(e, fns, n, x) ==
    [i \in 1..n |-> Event(e, x, 0, NoResult, <<n + 1 - i, fns[n + 1 - i]>>)]

\* the calls of the first n functions of a list of hooks, in the order of the list
Hooks(e, fns, n, x) == [i \in 1..n |-> Event(e, x, 0, NoResult, <<i, fns[i]>>)]
Calls(called, x, t) == [i \in 1..Len(called) |-> Event("call", x, t, NoResult, called[i])]

(***************************************************************************)
(* Steps::run                                                              *)
(***************************************************************************)
VisitStart ==
    /\ pc = "start"
    /\ trace' = Append(trace, Note("visit_start"))
    /\ run_is_success' = TRUE
    /\ fi' = 1
    /\ pc' = "file"
    /\ UNCHANGED <<fn_call, feature_files, options, before_fns, after_fns, ri, si, ei, ti,
                   scenarios_is_success, is_success, is_skipping, world, exec>>

\* a slip: run() returns at the first file that does not parse
FeatureError_return ==
    /\ pc = "file"
    /\ fi <= Len(feature_files)
    /\ ~feature_files[fi].ok
    /\ trace' = Append(trace, Note("visit_feature_error"))
    /\ run_is_success' = FALSE
    /\ pc' = "done"
    /\ UNCHANGED <<fn_call, feature_files, options, before_fns, after_fns, fi, ri, si, ei, ti,
                   scenarios_is_success, is_success, is_skipping, world, exec>>

FeatureError ==
    /\ pc = "file"
    /\ fi <= Len(feature_files)
    /\ ~feature_files[fi].ok
    /\ trace' = Append(trace, Note("visit_feature_error"))
    /\ run_is_success' = FALSE
    /\ fi' = AfterParseError(fi, Len(feature_files))
    /\ UNCHANGED <<fn_call, feature_files, options, before_fns, after_fns, pc, ri, si, ei, ti,
                   scenarios_is_success, is_success, is_skipping, world, exec>>

VisitFeature ==
    /\ pc = "file"
    /\ fi <= Len(feature_files)
    /\ feature_files[fi].ok
    /\ trace' = Append(trace, Note("visit_feature"))
    /\ ri' = 0
    /\ si' = 1
    /\ ei' = 0
    /\ scenarios_is_success' = TRUE
    /\ pc' = "scenarios"
    /\ UNCHANGED <<fn_call, feature_files, options, before_fns, after_fns, fi, ti,
                   run_is_success, is_success, is_skipping, world, exec>>

VisitRule ==
    /\ pc = "rules"
    /\ ri < Len(CurFeature.rules)
    /\ ri' = ri + 1
    /\ si' = 1
    /\ ei' = 0
    /\ trace' = Append(trace, [Note("visit_rule") EXCEPT !.rule = ri + 1])
    /\ scenarios_is_success' = TRUE
    /\ pc' = "scenarios"
    /\ UNCHANGED <<fn_call, feature_files, options, before_fns, after_fns, fi, ti,
                   run_is_success, is_success, is_skipping, world, exec>>

VisitFeatureEnd ==
    /\ pc = "rules"
    /\ ri >= Len(CurFeature.rules)
    /\ trace' = Append(trace, Note("visit_feature_end"))
    /\ fi' = fi + 1
    /\ pc' = "file"
    /\ UNCHANGED <<fn_call, feature_files, options, before_fns, after_fns, ri, si, ei, ti,
                   run_is_success, scenarios_is_success, is_success, is_skipping,
                   world, exec>>

VisitFinish ==
    /\ pc = "file"
    /\ fi > Len(feature_files)
    /\ trace' = Append(trace, Note("visit_finish"))
    /\ pc' = "done"
    /\ UNCHANGED <<fn_call, feature_files, options, before_fns, after_fns, fi, ri, si, ei, ti,
                   run_is_success, scenarios_is_success, is_success, is_skipping,
                   world, exec>>

(***************************************************************************)
(* Steps::run_scenarios                                                    *)
(***************************************************************************)
\* the tag filter: "continue"
SkipByTag ==
    /\ pc = "scenarios"
    /\ si <= Len(CurScenarios)
    /\ ShouldSkip(CurScenario.tags, options.tag)
    /\ si' = si + 1
    /\ UNCHANGED <<fn_call, feature_files, options, before_fns, after_fns, pc, fi, ri, ei, ti,
                   run_is_success, scenarios_is_success, is_success, is_skipping,
                   world, exec, trace>>

\* the name filter: "continue"
SkipByFilter ==
    /\ pc = "scenarios"
    /\ si <= Len(CurScenarios)
    /\ ~ShouldSkip(CurScenario.tags, options.tag)
    /\ FilterRejects(options.filter, CurScenario.name)
    /\ si' = si + 1
    /\ UNCHANGED <<fn_call, feature_files, options, before_fns, after_fns, pc, fi, ri, ei, ti,
                   run_is_success, scenarios_is_success, is_success, is_skipping,
                   world, exec, trace>>

Included ==
    /\ pc = "scenarios"
    /\ si <= Len(CurScenarios)
    /\ ~ShouldSkip(CurScenario.tags, options.tag)
    /\ ~FilterRejects(options.filter, CurScenario.name)

\* an Examples block without rows: the loop over the rows has nothing to do
NoRows ==
    /\ Included
    /\ CurScenario.examples.some
    /\ Len(CurRows) = 0
    /\ si' = si + 1
    /\ UNCHANGED <<fn_call, feature_files, options, before_fns, after_fns, pc, fi, ri, ei, ti,
                   run_is_success, scenarios_is_success, is_success, is_skipping,
                   world, exec, trace>>

\* the scenario is run: with its first row, or with no example
EnterScenario ==
    /\ Included
    /\ CurScenario.examples.some => Len(CurRows) > 0
    /\ ei' = IF CurScenario.examples.some THEN 1 ELSE 0
    /\ pc' = "scenario"
    /\ UNCHANGED <<fn_call, feature_files, options, before_fns, after_fns, fi, ri, si, ti,
                   run_is_success, scenarios_is_success, is_success, is_skipping,
                   world, exec, trace>>

\* run_scenarios returns to run()
ReturnScenarios ==
    /\ pc = "scenarios"
    /\ si > Len(CurScenarios)
    /\ run_is_success' = Accumulate(run_is_success, scenarios_is_success)
    /\ trace' = IF ri > 0
                THEN Append(trace, [Note("visit_rule_end") EXCEPT !.rule = ri])
                ELSE trace
    /\ pc' = "rules"
    /\ UNCHANGED <<fn_call, feature_files, options, before_fns, after_fns, fi, ri, si, ei, ti,
                   scenarios_is_success, is_success, is_skipping, world, exec>>

(***************************************************************************)
(* Steps::run_scenario                                                     *)
(***************************************************************************)
Example == IF ei > 0 THEN Some(CurRows[ei]) ELSE None

\* visit_scenario, the before hooks, T::default(): the execution starts
ScenarioStart ==
    /\ pc = "scenario"
    /\ exec' = exec + 1
    /\ trace' = trace \o <<Event("visit_scenario", exec + 1, 0, NoResult, CurScenario.name)>>
                      \o Hooks("before", Fns(before_fns), Len(Fns(before_fns)), exec + 1)
                      \o <<Event("world_default", exec + 1, 0, NoResult, <<>>)>>
    /\ world' = DefaultWorld
    /\ is_success' = TRUE
    /\ is_skipping' = FALSE
    /\ ti' = 1
    /\ pc' = "step"
    /\ UNCHANGED <<fn_call, feature_files, options, before_fns, after_fns, fi, ri, si, ei,
                   run_is_success, scenarios_is_success>>

\* a before hook panics: nothing catches it
BeforeHookPanics ==
    /\ pc = "scenario"
    /\ \E k \in 1..Len(Fns(before_fns)) :
          trace' = trace \o <<Event("visit_scenario", exec + 1, 0, NoResult, CurScenario.name)>>
                         \o Hooks("before", Fns(before_fns), k, exec + 1)
                         \o <<Event("panic", exec + 1, 0, NoResult, <<"before", k>>)>>
    /\ exec' = exec + 1
    /\ pc' = "aborted"
    /\ UNCHANGED <<fn_call, feature_files, options, before_fns, after_fns, fi, ri, si, ei, ti,
                   run_is_success, scenarios_is_success, is_success, is_skipping, world>>

\* a slip: the panic of T::default() is caught, the scenario counts as
\* failed and run_scenarios goes on with the next scenario
WorldPanics_caught ==
    /\ pc = "scenario"
    /\ trace' = trace \o <<Event("visit_scenario", exec + 1, 0, NoResult, CurScenario.name)>>
                      \o Hooks("before", Fns(before_fns), Len(Fns(before_fns)), exec + 1)
                      \o <<Event("world_default", exec + 1, 0, NoResult, <<>>),
                           Event("panic", exec + 1, 0, NoResult, <<"world">>)>>
    /\ exec' = exec + 1
    /\ scenarios_is_success' = FALSE
    /\ ei' = 0
    /\ si' = si + 1
    /\ pc' = "scenarios"
    /\ UNCHANGED <<fn_call, feature_files, options, before_fns, after_fns, fi, ri, ti,
                   run_is_success, is_success, is_skipping, world>>

\* T::default() panics: run_scenario panics again with the payload
WorldPanics ==
    /\ pc = "scenario"
    /\ trace' = trace \o <<Event("visit_scenario", exec + 1, 0, NoResult, CurScenario.name)>>
                      \o Hooks("before", Fns(before_fns), Len(Fns(before_fns)), exec + 1)
                      \o <<Event("world_default", exec + 1, 0, NoResult, <<>>),
                           Event("panic", exec + 1, 0, NoResult, <<"world">>)>>
    /\ exec' = exec + 1
    /\ pc' = "aborted"
    /\ UNCHANGED <<fn_call, feature_files, options, before_fns, after_fns, fi, ri, si, ei, ti,
                   run_is_success, scenarios_is_success, is_success, is_skipping, world>>

\* a slip: the None arm goes on with the next step before it has reported
StepDone_unreported(result, w, called) ==
    LET r == StepResult(result, is_skipping, is_success)
    IN /\ trace' = trace
                     \o <<Event("visit_step", exec, ti, NoResult, CurSteps[ti])>>
                     \o Calls(called, exec, ti)
                     \o (IF result.some
                         THEN <<Event("visit_step_result", exec, ti, r.out, <<>>)>>
                         ELSE <<>>)
                     \o (IF r.notice
                         THEN <<Event("visit_scenario_skipped", exec, ti, NoResult, <<>>)>>
                         ELSE <<>>)
       /\ world' = w
       /\ is_skipping' = r.is_skipping
       /\ is_success' = r.is_success
       /\ ti' = ti + 1

\* what one turn of "for step in steps" leaves, given the result of run_test,
\* the State after it and the handler calls made
StepDone(result, w, called) ==
    LET r == StepResult(result, is_skipping, is_success)
    IN /\ trace' = trace
                     \o <<Event("visit_step", exec, ti, NoResult, CurSteps[ti])>>
                     \o Calls(called, exec, ti)
                     \o <<Event("visit_step_result", exec, ti, r.out, <<>>)>>
                     \o (IF r.notice
                         THEN <<Event("visit_scenario_skipped", exec, ti, NoResult, <<>>)>>
                         ELSE <<>>)
       /\ world' = w
       /\ is_skipping' = r.is_skipping
       /\ is_success' = r.is_success
       /\ ti' = ti + 1

\* One turn of "for step in steps".  The first argument of map_or is a call
\* of run_test on the step as written, made before map_or looks at example;
\* with an example, run_test is called again on the interpolated step and
\* that call's result is the one kept.
RunStep ==
    /\ pc = "step"
    /\ ti <= Len(CurSteps)
    /\ \E tt \in test_type(TheSteps, CurSteps[ti]) :
          LET plain == run_test(tt, world, CurSteps[ti], "step")
          IN IF ei = 0
             THEN StepDone(plain.result, plain.world, plain.called)
             ELSE LET interpolated_step ==
                          interpolate_outline_variables(
                              CurSteps[ti], CurScenario.examples.v.table.header, CurRows[ei])
                  IN \E tti \in test_type(TheSteps, interpolated_step) :
                        LET inter == run_test(tti, plain.world, interpolated_step,
                                             "interpolated_step")
                        IN StepDone(inter.result, inter.world,
                                    plain.called \o inter.called)
    /\ UNCHANGED <<fn_call, feature_files, options, before_fns, after_fns, pc, fi, ri, si, ei,
                   run_is_success, scenarios_is_success, exec>>

\* the after hooks, visit_scenario_end, the return of is_success, and the
\* caller's "if !run_scenario(..)": the next row, or the next scenario
ScenarioEnd ==
    /\ pc = "step"
    /\ ti > Len(CurSteps)
    /\ trace' = trace \o Hooks("after", Fns(after_fns), Len(Fns(after_fns)), exec)
                      \o <<Event("visit_scenario_end", exec, 0, NoResult, Example),
                           Event("return", exec, 0, NoResult, is_success)>>
    /\ scenarios_is_success' = Accumulate(scenarios_is_success, is_success)
    /\ IF MoreRows(ei, IF ei > 0 THEN CurRows ELSE <<>>)
       THEN /\ ei' = ei + 1
            /\ pc' = "scenario"
            /\ si' = si
       ELSE /\ ei' = 0
            /\ pc' = "scenarios"
            /\ si' = si + 1
    /\ UNCHANGED <<fn_call, feature_files, options, before_fns, after_fns, fi, ri, ti,
                   run_is_success, is_success, is_skipping, world, exec>>

\* an after hook panics: nothing catches it
AfterHookPanics ==
    /\ pc = "step"
    /\ ti > Len(CurSteps)
    /\ \E k \in 1..Len(Fns(after_fns)) :
          trace' = trace \o Hooks("after", Fns(after_fns), k, exec)
                         \o <<Event("panic", exec, 0, NoResult, <<"after", k>>)>>
    /\ pc' = "aborted"
    /\ UNCHANGED <<fn_call, feature_files, options, before_fns, after_fns, fi, ri, si, ei, ti,
                   run_is_success, scenarios_is_success, is_success, is_skipping,
                   world, exec>>

(***************************************************************************)
(* The inputs of a run.                                                    *)
(***************************************************************************)
SeqsUpTo(S, n) == UNION {[1..k -> S] : k \in 0..n}

GivenThing == Step("Given", <<"p">>)
WhenRight == Step("When", <<"w">>)
WhenWrong == Step("When", <<"f">>)
WhenSkip == Step("When", <<"s">>)
WhenSentinel == Step("When", <<"e">>)
WhenAfterSentinel == Step("When", <<"o">>)
ThenUnknown == Step("Then", <<"u">>)
ThenRegex == Step("Then", <<"r">>)
WhenVariable == Step("When", <<"<", "x", ">">>)
StepPool ==
    {GivenThing, WhenWrong, WhenSkip, WhenSentinel, WhenAfterSentinel, ThenUnknown,
     WhenVariable}

Header == <<<<"x">>>>
Rows == << <<<<"f">>>>, <<<<"w">>>> >>

ScenarioPool ==
    {Scenario(<<"a", "b">>, None, <<GivenThing>>, None),
     Scenario(<<"b">>, Some(<<"@t">>), <<WhenWrong, GivenThing>>, None),
     Scenario(<<"a">>, Some(<<"@u">>), <<ThenUnknown, ThenRegex>>, None),
     Scenario(<<"a">>, Some(<<"@u", "@t">>), <<WhenVariable>>, Some(Examples(Header, Rows))),
     Scenario(<<"a">>, None, <<WhenWrong>>, Some(Examples(Header, <<>>)))}

RulePool ==
    {<<>>,
     <<Rule(<<"r1">>, <<Scenario(<<"a">>, None, <<WhenRight>>, None)>>)>>,
     <<Rule(<<"r1">>, <<Scenario(<<"b">>, Some(<<"@t">>), <<WhenWrong>>, None)>>),
       Rule(<<"r2">>, <<Scenario(<<"a">>, Some(<<"@t">>), <<WhenRight>>, None)>>)>>}

OptionPool ==
    {[tag |-> t, filter |-> f] :
        t \in {None, Some("@t")}, f \in {None, Some(Pattern(<<"a">>, FALSE))}}

NoOptions == [tag |-> None, filter |-> None]
TheBefore == Some(<<"before_thing", "some_before">>)
TheAfter == Some(<<"after_thing">>)

Config(files, opts, before, after) ==
    [files |-> files, options |-> opts, before |-> before, after |-> after]

\* one scenario, every list of steps, with and without examples
StepConfigs ==
    {Config(<<Parsed(Feature(None, <<Scenario(<<"a">>, None, steps, ex)>>, <<>>))>>,
            NoOptions, None, None) :
        steps \in SeqsUpTo(StepPool, MaxSteps),
        ex \in {None, Some(Examples(Header, Rows))}}

\* one feature with a background, every list of scenarios, rules, every filter
FeatureConfigs ==
    {Config(<<Parsed(Feature(Some([steps |-> <<GivenThing>>]), scenarios, rules))>>,
            opts, TheBefore, TheAfter) :
        scenarios \in SeqsUpTo(ScenarioPool, MaxScenarios),
        rules \in RulePool,
        opts \in OptionPool}

\* every list of files: one that does not parse, one that passes, one that fails
FilePool ==
    {ParseError,
     Parsed(Feature(None, <<Scenario(<<"a">>, None, <<GivenThing>>, None)>>, <<>>)),
     Parsed(Feature(None, <<Scenario(<<"a">>, None, <<WhenWrong>>, None)>>, <<>>))}

FileConfigs ==
    {Config(files, NoOptions, before, None) :
        files \in SeqsUpTo(FilePool, MaxFiles), before \in {None, TheBefore}}

Configs == StepConfigs \cup FeatureConfigs \cup FileConfigs

Init ==
    /\ \E c \in Configs :
          /\ feature_files = c.files
          /\ options = c.options
          /\ before_fns = c.before
          /\ after_fns = c.after
    /\ pc = "start"
    /\ fi = 0
    /\ ri = 0
    /\ si = 0
    /\ ei = 0
    /\ ti = 0
    /\ run_is_success = TRUE
    /\ scenarios_is_success = TRUE
    /\ is_success = TRUE
    /\ is_skipping = FALSE
    /\ world = DefaultWorld
    /\ exec = 0
    /\ trace = <<>>
    /\ fn_call = NoCall

Next ==
    \/ VisitStart
    \/ FeatureError
    \/ VisitFeature
    \/ VisitRule
    \/ VisitFeatureEnd
    \/ VisitFinish
    \/ SkipByTag
    \/ SkipByFilter
    \/ NoRows
    \/ EnterScenario
    \/ ReturnScenarios
    \/ ScenarioStart
    \/ BeforeHookPanics
    \/ WorldPanics
    \/ RunStep
    \/ ScenarioEnd
    \/ AfterHookPanics

Spec == Init /\ [][Next]_vars

\* the runs whose end is looked for: those of Init whose lists of scenarios
\* and of steps are below the bound
Short(scenarios) ==
    /\ Len(scenarios) < MaxScenarios
    /\ \A s \in 1..Len(scenarios) : Len(scenarios[s].steps) < MaxSteps
FairInit ==
    /\ Init
    /\ \A f \in 1..Len(feature_files) :
          feature_files[f].ok =>
              /\ Short(feature_files[f].feature.scenarios)
              /\ \A r \in 1..Len(feature_files[f].feature.rules) :
                    Short(feature_files[f].feature.rules[r].scenarios)

\* run() is one thread that runs on as long as it has a next statement;
\* handlers and hooks return or panic
FairSpec == FairInit /\ [][Next]_vars /\ WF_vars(Next)

(***************************************************************************)
(* The functions of lib.rs that need no run: each is called once on        *)
(* arguments drawn from the pools below, and returns.                      *)
(***************************************************************************)
\* registries as the functions of "steps: &[..]" build them
OtherSteps ==
    [given |-> Bag({<<<<"p">>, "other_thing">>, <<<<"q">>, "q_thing">>}),
     when  |-> Bag({<<<<"p">>, "when_p">>}),
     then  |-> Bag({}),
     regex |-> [given |-> {<<Pattern(<<"p">>, FALSE), "other_regex">>},
                when  |-> {<<Pattern(<<"p">>, FALSE), "when_regex">>},
                then  |-> {<<Pattern(<<"r">>, TRUE), "other_sense">>,
                           <<Pattern(<<"q">>, FALSE), "q_regex">>}]]
ThirdSteps ==
    [given |-> Bag({<<<<"q">>, "third_q">>}),
     when  |-> Bag({}),
     then  |-> Bag({<<<<"p">>, "third_p">>}),
     regex |-> [given |-> {},
                when  |-> {<<Pattern(<<"p">>, TRUE), "third_regex">>},
                then  |-> {}]]
RegistryPool == {DefaultSteps, TheSteps, OtherSteps, ThirdSteps}

CombineCalls == {Call("combine", iter) : iter \in SeqsUpTo(RegistryPool, MaxRegistries)}

\* steps that hold a text in their value, in a cell of their table or in
\* their docstring; the header of the table holds a placeholder
TextPool == SeqsUpTo({"<", "x", ">"}, MaxText)
XKey == <<"<", "x", ">">>
StepsWith(text) ==
    {Step("When", text),
     [Step("When", <<"a">>) EXCEPT !.table = Some(Table(<<XKey>>, << <<text, <<"a">>>> >>))],
     [Step("When", <<"a">>) EXCEPT !.docstring = Some(text)]}
\* a header and a row of examples: none, one column, two columns of which
\* the first brings in the second's placeholder, a row that is too short
HeaderRowPool ==
    {<< <<>>, <<>> >>,
     << <<<<"x">>>>, <<<<"v">>>> >>,
     << <<<<"x">>, <<"y">>>>, <<<<"<", "y", ">">>, <<"v">>>> >>,
     << <<<<"x">>>>, <<>> >>}
InterpolateCalls ==
    {Call("interpolate_outline_variables",
          [step |-> step, header |-> hr[1], example |-> hr[2]]) :
        step \in UNION {StepsWith(text) : text \in TextPool}, hr \in HeaderRowPool}

\* rules of up to MaxRule symbols, scenarios without tags, with none, one, two
TagRulePool == SeqsUpTo({"@t", "@u", "and", "or", " "}, MaxRule)
TaggedPool ==
    {Scenario(<<"a">>, tags, <<>>, None) :
        tags \in {None, Some(<<>>), Some(<<"@t">>), Some(<<"@t", "@u">>)}}
TagRuleCalls ==
    {Call("tag_rule_applies", [scenario |-> scenario, rule |-> rule]) :
        scenario \in TaggedPool, rule \in TagRulePool}

\* the hooks of both forms: without a rule, and with one
BeforeCalls ==
    {Call("before", [scenario |-> scenario, tagrule |-> tagrule]) :
        scenario \in TaggedPool,
        tagrule \in {None, Some(<<"@t">>), Some(<<"@t", " ", "and", " ", "@u">>)}}

\* a registry of patterns only: with a group for the rest, with a group
\* that may be left out, without group
CaptureSteps ==
    [given |-> Bag({}), when |-> Bag({}), then |-> Bag({}),
     regex |-> [given |-> {<<Pattern(<<"x">>, TRUE), "takes_rest">>},
                when  |-> {<<PatternOpt(<<"x">>, <<">">>), "may_close">>},
                then  |-> {<<Pattern(<<"x">>, FALSE), "just_x">>}]]
TestTypeCalls ==
    {Call("test_type", [steps |-> CaptureSteps, step |-> Step(ty, text)]) :
        ty \in {"Given", "When", "Then"}, text \in TextPool}

\* is this one of the calls made?
FnCalls(c) ==
    \/ c \in CombineCalls
    \/ c \in InterpolateCalls
    \/ c \in TagRuleCalls
    \/ c \in TestTypeCalls
    \/ c \in BeforeCalls

FnInit ==
    /\ FnCalls(fn_call)
    /\ pc = "call"
    /\ feature_files = <<>>
    /\ options = NoOptions
    /\ before_fns = None
    /\ after_fns = None
    /\ fi = 0
    /\ ri = 0
    /\ si = 0
    /\ ei = 0
    /\ ti = 0
    /\ run_is_success = TRUE
    /\ scenarios_is_success = TRUE
    /\ is_success = TRUE
    /\ is_skipping = FALSE
    /\ world = DefaultWorld
    /\ exec = 0
    /\ trace = <<>>

\* everything run() works on
run_vars == <<feature_files, options, before_fns, after_fns, fi, ri, si, ei, ti,
              run_is_success, scenarios_is_success, is_success, is_skipping,
              world, exec, trace>>

Return(ret) ==
    /\ fn_call' = [fn_call EXCEPT !.ret = ret]
    /\ pc' = "returned"
    /\ UNCHANGED run_vars

CallCombine ==
    /\ pc = "call"
    /\ fn_call.fn = "combine"
    /\ Return(combine(fn_call.args))

CallInterpolate ==
    /\ pc = "call"
    /\ fn_call.fn = "interpolate_outline_variables"
    /\ Return(interpolate_outline_variables(
                  fn_call.args.step, fn_call.args.header, fn_call.args.example))

CallTagRule ==
    /\ pc = "call"
    /\ fn_call.fn = "tag_rule_applies"
    /\ Return(tag_rule_applies(fn_call.args.scenario, fn_call.args.rule))

CallTestType ==
    /\ pc = "call"
    /\ fn_call.fn = "test_type"
    /\ \E tt \in test_type(fn_call.args.steps, fn_call.args.step) : Return(tt)

CallBefore ==
    /\ pc = "call"
    /\ fn_call.fn = "before"
    /\ Return(before_fn(fn_call.args.tagrule, fn_call.args.scenario))

FnNext ==
    \/ CallCombine
    \/ CallInterpolate
    \/ CallTagRule
    \/ CallTestType
    \/ CallBefore

FnSpec == FnInit /\ [][FnNext]_vars

Returned(fn) == pc = "returned" /\ fn_call.fn = fn

(***************************************************************************)
(* Reading the trace.                                                      *)
(***************************************************************************)
Idx == DOMAIN trace
Is(i, e) == trace[i].ev = e
\* a step result that starts or continues the skip cascade
IsCascade(i) ==
    /\ Is(i, "visit_step_result")
    /\ trace[i].res.kind \in {"Fail", "Unimplemented", "Skipped"}
\* a result of the same execution was not Passed before event i
CascadeBefore(i) ==
    \E j \in Idx : /\ IsCascade(j)
                   /\ trace[j].exec = trace[i].exec
                   /\ trace[j].step < trace[i].step
SameScenario(i, loc) ==
    /\ trace[i].file = loc[1]
    /\ trace[i].rule = loc[2]
    /\ trace[i].scen = loc[3]

ScenariosAt(f, r) ==
    IF r = 0 THEN feature_files[f].feature.scenarios
    ELSE feature_files[f].feature.rules[r].scenarios
\* every scenario of every parsed file: <<file, rule, scenario>>
Locs ==
    UNION {UNION {{<<f, r, s>> : s \in 1..Len(ScenariosAt(f, r))} :
                      r \in 0..Len(feature_files[f].feature.rules)} :
               f \in {g \in 1..Len(feature_files) : feature_files[g].ok}}
ScenarioAt(loc) == ScenariosAt(loc[1], loc[2])[loc[3]]
\* run_scenarios' loop has left the scenario behind
Passed(loc) ==
    \/ loc[1] < fi
    \/ /\ loc[1] = fi
       /\ pc \in {"scenarios", "scenario", "step", "rules"}
       /\ \/ loc[2] < ri
          \/ loc[2] = ri /\ loc[3] < si
NameMatches(filter, name) ==
    \E i \in 1..Len(name) : \E j \in i..Len(name) : SubSeq(name, i, j) = filter.lit
HasTag(scenario, tag) ==
    scenario.tags.some /\ \E i \in 1..Len(scenario.tags.v) : scenario.tags.v[i] = tag
ExecsOf(loc) == {i \in Idx : Is(i, "visit_scenario") /\ SameScenario(i, loc)}

(***************************************************************************)
(* C1: cascade law, handler side.  Once a step of a scenario execution has *)
(* been reported Failed, Unimplemented or Skipped, no handler is called    *)
(* for a later step of that execution.                                     *)
(***************************************************************************)
C1_NoHandlerAfterCascade ==
    \A i \in Idx : Is(i, "call") => ~CascadeBefore(i)

(***************************************************************************)
(* C2: cascade law, reporting side.  Once a step of a scenario execution   *)
(* has been reported Failed, Unimplemented or Skipped, every later step of *)
(* that execution is reported Skipped, with or without a handler.          *)
(***************************************************************************)
C2_LaterStepsReportedSkipped ==
    \A i \in Idx :
        Is(i, "visit_step_result") /\ CascadeBefore(i) => trace[i].res.kind = "Skipped"

(***************************************************************************)
(* C3: at most one handler call is made for a step visit, also in the      *)
(* rows of a scenario outline.                                             *)
(***************************************************************************)
C3_AtMostOneHandlerPerStep ==
    \A i, j \in Idx :
        /\ Is(i, "call") /\ Is(j, "call")
        /\ trace[i].exec = trace[j].exec
        /\ trace[i].step = trace[j].step
        => i = j

FailedIn(x) ==
    \E j \in Idx : /\ Is(j, "visit_step_result")
                   /\ trace[j].exec = x
                   /\ trace[j].res.kind = "Fail"

(***************************************************************************)
(* C4: run_scenario returns true exactly when no step result of that       *)
(* execution was Failed; Unimplemented and Skipped results leave it true.  *)
(* It holds of is_success all along the loop over the steps, and of the    *)
(* value returned.                                                         *)
(***************************************************************************)
C4_SuccessIffNoFailed ==
    /\ pc = "step" => (is_success <=> ~FailedIn(exec))
    /\ \A i \in Idx : Is(i, "return") => (trace[i].arg <=> ~FailedIn(trace[i].exec))

\* an execution that returned true after an Unimplemented and a Skipped result
C4_Witness ==
    \E i \in Idx :
        /\ Is(i, "return") /\ trace[i].arg
        /\ \E j, k \in Idx :
              /\ Is(j, "visit_step_result") /\ Is(k, "visit_step_result")
              /\ trace[j].exec = trace[i].exec /\ trace[k].exec = trace[i].exec
              /\ trace[j].res.kind = "Unimplemented"
              /\ trace[k].res.kind = "Skipped"

PanickedCall(i) == Is(i, "call") /\ HandlerBody(trace[i].arg.handler).panics
\* the call whose result run_scenario keeps for the step
KeptCall(i) == (trace[i].row = 0) <=> (trace[i].arg.of = "step")
ResultOfStep(i, j) ==
    /\ Is(j, "visit_step_result")
    /\ trace[j].exec = trace[i].exec
    /\ trace[j].step = trace[i].step
CarriesPanic(result, body) ==
    /\ result.kind = "Fail"
    /\ result.payload = body.payload
    /\ result.location = body.location
    /\ result.stdout = body.stdout
    /\ result.stderr = body.stderr
ReportedFailed(i) ==
    /\ \E j \in Idx : ResultOfStep(i, j) /\ trace[j].res = trace[i].arg.result
    /\ (pc = "step" /\ trace[i].exec = exec) => ~is_success
    /\ \A j \in Idx : Is(j, "return") /\ trace[j].exec = trace[i].exec => ~trace[j].arg

\* C5, as claimed: the panic of a handler is classified Skipped exactly when
\* its message equals the skip message, and is otherwise classified Failed,
\* reported so and fails the scenario.
C5_SkippedIffMessageEquals ==
    \A i \in Idx :
        PanickedCall(i) =>
            LET body == HandlerBody(trace[i].arg.handler)
            IN IF body.payload = SkipMessage
               THEN trace[i].arg.result.kind = "Skipped"
               ELSE CarriesPanic(trace[i].arg.result, body) /\ ReportedFailed(i)

\* C5, as amended: the panic of a handler is classified Skipped by run_test
\* exactly when its message ends with the skip message, and is otherwise
\* classified Failed with the message, the location and both buffers; when
\* that result is the one kept for a step visited before the skip cascade
\* began, it is reported as it is and fails the scenario.
C5_SkippedIffMessageEndsWith ==
    \A i \in Idx :
        PanickedCall(i) =>
            LET body == HandlerBody(trace[i].arg.handler)
                ends == \E n \in 0..Len(body.payload) :
                            SubSeq(body.payload, n + 1, Len(body.payload)) = SkipMessage
            IN IF ends
               THEN trace[i].arg.result.kind = "Skipped"
               ELSE /\ CarriesPanic(trace[i].arg.result, body)
                    /\ (KeptCall(i) /\ ~CascadeBefore(i)) => ReportedFailed(i)

\* a failure reported Failed that failed the scenario, and in the same
\* execution the panic of skip!(), whose message only ends with the skip
\* message, classified Skipped
C5_Witness ==
    \E i, j \in Idx :
        /\ PanickedCall(i) /\ PanickedCall(j)
        /\ trace[i].exec = trace[j].exec
        /\ trace[i].arg.result.kind = "Fail" /\ ReportedFailed(i) /\ ~CascadeBefore(i)
        /\ trace[j].arg.result.kind = "Skipped"
        /\ HandlerBody(trace[j].arg.handler).payload # SkipMessage

Let_Through(loc) ==
    /\ ~ShouldSkip(ScenarioAt(loc).tags, options.tag)
    /\ ~FilterRejects(options.filter, ScenarioAt(loc).name)
RowsOf(loc) == ScenarioAt(loc).examples.v.table.rows

(***************************************************************************)
(* C6: a scenario with an Examples block of N rows that the filters let    *)
(* through is executed N times, row by row in the order of the table,      *)
(* whatever the rows before returned; the State of an execution holds the  *)
(* handler calls of that execution and of no other; and the success of     *)
(* run_scenarios is the conjunction of what its executions returned.       *)
(***************************************************************************)
C6_OneExecutionPerRow ==
    /\ \A loc \in Locs :
          ScenarioAt(loc).examples.some /\ Let_Through(loc) /\ Passed(loc) =>
              /\ \A k \in 1..Len(RowsOf(loc)) :
                    Cardinality({i \in ExecsOf(loc) : trace[i].row = k}) = 1
              /\ \A i \in ExecsOf(loc) : trace[i].row \in 1..Len(RowsOf(loc))
              /\ \A i, j \in ExecsOf(loc) :
                    i < j => /\ trace[i].row < trace[j].row
                             /\ trace[i].exec < trace[j].exec
                             /\ \E k \in Idx : /\ i < k /\ k < j
                                               /\ Is(k, "return")
                                               /\ trace[k].exec = trace[i].exec
              /\ \A i \in ExecsOf(loc) :
                    Cardinality({k \in Idx : /\ Is(k, "world_default")
                                             /\ trace[k].exec = trace[i].exec}) = 1
    /\ pc = "step" =>
          world.calls = Cardinality({k \in Idx : Is(k, "call") /\ trace[k].exec = exec})
    /\ pc \in {"scenarios", "scenario", "step", "rules"} =>
          (scenarios_is_success <=>
              \A k \in Idx :
                  Is(k, "return") /\ trace[k].file = fi /\ trace[k].rule = ri
                      => trace[k].arg)

\* both rows of an outline were run, the first returned false, the second true
C6_Witness ==
    \E loc \in Locs :
        /\ ScenarioAt(loc).examples.some /\ Passed(loc)
        /\ \E i, j \in Idx :
              /\ Is(i, "return") /\ Is(j, "return")
              /\ SameScenario(i, loc) /\ SameScenario(j, loc)
              /\ trace[i].row = 1 /\ ~trace[i].arg
              /\ trace[j].row = 2 /\ trace[j].arg
        /\ \E k \in Idx : Is(k, "call") /\ SameScenario(k, loc) /\ trace[k].row = 1

Opened(i) == Is(i, "visit_feature") \/ Is(i, "visit_feature_error")

(***************************************************************************)
(* C7: a file that does not parse is reported, none of its scenarios is    *)
(* run, and the files after it are processed, in order.                    *)
(***************************************************************************)
C7_ParseErrorIsNotFatal ==
    /\ \A f \in 1..Len(feature_files) :
          ~feature_files[f].ok /\ f < fi =>
              /\ \A i \in Idx : trace[i].file = f => Is(i, "visit_feature_error")
              /\ Cardinality({i \in Idx : trace[i].file = f}) = 1
              /\ pc = "done" =>
                    \A g \in (f + 1)..Len(feature_files) :
                        /\ \E i \in Idx : Opened(i) /\ trace[i].file = g
                        /\ \A i \in Idx :
                              Is(i, "visit_feature") /\ trace[i].file = g
                                  <=> Opened(i) /\ trace[i].file = g /\ feature_files[g].ok
    /\ \A i \in Idx :
          Opened(i) => \A j \in Idx : i < j /\ Opened(j) => trace[i].file < trace[j].file

\* the run finished, and a scenario of a file after one that did not parse was run
C7_Witness ==
    /\ pc = "done"
    /\ \E f \in 1..Len(feature_files) :
          /\ ~feature_files[f].ok
          /\ \E i \in Idx : Is(i, "return") /\ trace[i].file > f

(***************************************************************************)
(* C8: run() returns true exactly when every file parsed and every         *)
(* scenario execution returned true.                                       *)
(***************************************************************************)
C8_RunSuccess ==
    pc = "done" =>
        (run_is_success <=>
            /\ \A f \in 1..Len(feature_files) : feature_files[f].ok
            /\ \A i \in Idx : Is(i, "return") => trace[i].arg)

\* a run that returns false although its last execution returned true
C8_Witness ==
    /\ pc = "done"
    /\ ~run_is_success
    /\ \E i, j \in Idx : /\ Is(i, "return") /\ Is(j, "return") /\ i < j
                         /\ ~trace[i].arg /\ trace[j].arg
                         /\ \A k \in Idx : Is(k, "return") => k <= j

(***************************************************************************)
(* C9: with a tag requested, a scenario whose tags do not hold it, or that *)
(* has no tags at all, is left out: nothing is called or reported for it.  *)
(***************************************************************************)
C9_TagFilterOmits ==
    \A loc \in Locs :
        options.tag.some /\ ~HasTag(ScenarioAt(loc), options.tag.v) =>
            \A i \in Idx : ~(trace[i].exec > 0 /\ SameScenario(i, loc))

(***************************************************************************)
(* C10: with a name pattern requested, a scenario whose name it does not   *)
(* match is left out: nothing is reported for it, no hook and no handler   *)
(* is called, no State is made, and it returns nothing to the success      *)
(* flags; a scenario whose name it matches, and that the tag filter lets   *)
(* through, is executed: once, or once for each row of its examples.       *)
(***************************************************************************)
C10_NameFilterOmits ==
    \A loc \in Locs :
        options.filter.some =>
            IF NameMatches(options.filter.v, ScenarioAt(loc).name)
            THEN (/\ Passed(loc)
                  /\ options.tag.some => HasTag(ScenarioAt(loc), options.tag.v))
                 => Cardinality(ExecsOf(loc))
                      = IF ScenarioAt(loc).examples.some THEN Len(RowsOf(loc)) ELSE 1
            ELSE \A i \in Idx : ~(trace[i].exec > 0 /\ SameScenario(i, loc))

\* with a pattern requested, one scenario was left out and a later one run to its end
C10_Witness ==
    /\ options.filter.some
    /\ \E loc, other \in Locs :
          /\ loc[1] = other[1] /\ loc[2] = other[2] /\ loc[3] < other[3]
          /\ ~NameMatches(options.filter.v, ScenarioAt(loc).name)
          /\ NameMatches(options.filter.v, ScenarioAt(other).name)
          /\ Passed(other)
          /\ \E i \in Idx : Is(i, "return") /\ SameScenario(i, other)

\* the step, as written, that event i is about
StepAt(i) ==
    StepsOf(feature_files[trace[i].file].feature,
            ScenarioAt(<<trace[i].file, trace[i].rule, trace[i].scen>>))[trace[i].step]
ExactKey(steps, ty, text) == text \in DOMAIN test_bag_for(steps, ty)
PatternMatches(steps, ty, text) ==
    \E e \in regex_bag_for(steps, ty) : IsMatch(e[1], text)
AllSteps == StepPool \cup {WhenRight, ThenRegex}

(***************************************************************************)
(* C11: priority law.  For a step whose text is a key of the exact bag of  *)
(* its role and is matched by a pattern of the regex bag of that role,     *)
(* test_type returns the exact handler, and every handler call made with   *)
(* that text is a call of the exact handler, none of a pattern handler.    *)
(***************************************************************************)
C11_ExactBeforePattern ==
    /\ \A step \in AllSteps :
          ExactKey(TheSteps, step.ty, step.value)
              /\ PatternMatches(TheSteps, step.ty, step.value)
          => test_type(TheSteps, step)
               = {Some(Normal(test_bag_for(TheSteps, step.ty)[step.value]))}
    /\ \A i \in Idx :
          /\ Is(i, "call")
          /\ ExactKey(TheSteps, StepAt(i).ty, trace[i].arg.text)
          /\ PatternMatches(TheSteps, StepAt(i).ty, trace[i].arg.text)
          => /\ trace[i].arg.kind = "Normal"
             /\ trace[i].arg.handler
                  = test_bag_for(TheSteps, StepAt(i).ty)[trace[i].arg.text]

\* the exact handler was called for a step that a pattern matches as well
C11_Witness ==
    \E i \in Idx :
        /\ Is(i, "call")
        /\ ExactKey(TheSteps, StepAt(i).ty, trace[i].arg.text)
        /\ PatternMatches(TheSteps, StepAt(i).ty, trace[i].arg.text)
        /\ trace[i].arg.kind = "Normal"
        /\ trace[i].arg.handler = "a_thing"

Roles == {"Given", "When", "Then"}
RegexKeys(bag) == {e[1] : e \in bag}
\* the last registry of iter that holds the key
LastWith(iter, Has(_)) ==
    CHOOSE i \in 1..Len(iter) : Has(iter[i]) /\ \A j \in (i + 1)..Len(iter) : ~Has(iter[j])

(***************************************************************************)
(* C12: overwrite law.  In the registry combine returns, each of the six   *)
(* bags has as its keys the union of the keys of that bag in the           *)
(* registries combined, nothing of another role or kind; and a key has     *)
(* the handler of the last registry that holds it.                         *)
(***************************************************************************)
C12_CombineOverwrites ==
    Returned("combine") =>
        LET iter == fn_call.args
            combined == fn_call.ret
        IN \A ty \in Roles :
              /\ DOMAIN test_bag_for(combined, ty)
                   = UNION {DOMAIN test_bag_for(iter[i], ty) : i \in 1..Len(iter)}
              /\ \A k \in DOMAIN test_bag_for(combined, ty) :
                    LET Has(steps) == k \in DOMAIN test_bag_for(steps, ty)
                    IN test_bag_for(combined, ty)[k]
                         = test_bag_for(iter[LastWith(iter, Has)], ty)[k]
              /\ RegexKeys(regex_bag_for(combined, ty))
                   = UNION {RegexKeys(regex_bag_for(iter[i], ty)) : i \in 1..Len(iter)}
              /\ \A k \in RegexKeys(regex_bag_for(combined, ty)) :
                    LET Has(steps) == k \in RegexKeys(regex_bag_for(steps, ty))
                    IN \A e \in regex_bag_for(combined, ty) :
                          e[1] = k => e \in regex_bag_for(iter[LastWith(iter, Has)], ty)

\* two registries with the same exact key and the same pattern for Given,
\* other handlers: the second registry's handlers are the ones returned
C12_Witness ==
    /\ Returned("combine")
    /\ fn_call.args = <<TheSteps, OtherSteps>>
    /\ fn_call.ret.given[<<"p">>] = "other_thing"
    /\ <<Pattern(<<"p">>, FALSE), "other_regex">> \in fn_call.ret.regex.given
    /\ <<Pattern(<<"p">>, FALSE), "thing_regex">> \notin fn_call.ret.regex.given
    /\ <<"p">> \in DOMAIN fn_call.ret.then /\ <<"q">> \notin DOMAIN fn_call.ret.then

\* the text holds "<name>" for a name of the header
HasToken(text, header) ==
    \E i \in 1..Len(header) : Occurrences(text, <<"<">> \o header[i] \o <<">">>) # {}
\* the texts of a step that interpolation works on
TextsOf(step) ==
    {step.value}
        \cup (IF step.table.some
              THEN UNION {{step.table.v.rows[r][c] : c \in 1..Len(step.table.v.rows[r])} :
                             r \in 1..Len(step.table.v.rows)}
              ELSE {})
        \cup (IF step.docstring.some THEN {step.docstring.v} ELSE {})

(***************************************************************************)
(* C13: identity law.  When neither the text of a step nor a cell of a row *)
(* of its table nor its docstring holds "<name>" for a name of the header, *)
(* interpolate_outline_variables returns a step equal to the one given,    *)
(* whatever the header and the row of examples.                            *)
(***************************************************************************)
C13_InterpolationIdentity ==
    Returned("interpolate_outline_variables") =>
        LET a == fn_call.args
        IN (\A text \in TextsOf(a.step) : ~HasToken(text, a.header))
               => fn_call.ret = a.step

\* a text that holds the name and a part of the placeholder, a header and a
\* row of one column: returned as given
C13_Witness ==
    /\ Returned("interpolate_outline_variables")
    /\ fn_call.args.header = <<<<"x">>>>
    /\ fn_call.args.example = <<<<"v">>>>
    /\ fn_call.args.step.value = <<"<", "x">>
    /\ fn_call.ret = fn_call.args.step

\* event i: the State of an execution could not be made
WorldFailed(i) == Is(i, "panic") /\ trace[i].arg = <<"world">>
\* nothing is called or reported after that, and nothing was for a step
AbortedAt(i) ==
    /\ pc = "aborted"
    /\ i = Len(trace)
    /\ exec = trace[i].exec
    /\ \A j \in Idx :
          trace[j].exec = trace[i].exec
              => trace[j].ev \in {"visit_scenario", "before", "world_default", "panic"}

(***************************************************************************)
(* C14: when T::default() panics the whole run is over: no step of the     *)
(* scenario is visited and no handler called, nothing is reported or       *)
(* called afterwards (no scenario end, no feature end, no finish), and     *)
(* run() takes no further step: no later row, scenario, rule or file.      *)
(***************************************************************************)
C14_WorldFailureAbortsRun ==
    /\ [](\A i \in Idx : WorldFailed(i) => AbortedAt(i))
    /\ [][pc # "aborted"]_vars

\* the State of the first of two scenarios, with steps to run, could not
\* be made, in the first of the files or before a rule
C14_Witness ==
    \E i \in Idx :
        /\ WorldFailed(i)
        /\ Len(CurSteps) > 0
        /\ si < Len(CurScenarios)
        /\ Len(CurFeature.rules) > 0

\* the words of a rule that stand for tags
TagTokens(rule) ==
    {Split(rule, " ")[n] : n \in 1..Len(Split(rule, " "))} \ {<<>>, <<"and">>, <<"or">>}
\* the tags of a scenario; one without tags has none
TagSet(scenario) ==
    IF scenario.tags.some
    THEN {<<scenario.tags.v[i]>> : i \in 1..Len(scenario.tags.v)}
    ELSE {}

(***************************************************************************)
(* C15: tag_rule_applies returns true only if every word of the rule       *)
(* other than "and" and "or" is a tag of the scenario.                     *)
(***************************************************************************)
C15_TrueOnlyIfTagsPresent ==
    Returned("tag_rule_applies") /\ fn_call.ret = TRUE =>
        TagTokens(fn_call.args.rule) \subseteq TagSet(fn_call.args.scenario)

(***************************************************************************)
(* C16: resolution is deterministic.  Whenever run_scenario is about to    *)
(* resolve a step, there is one Option<TestCaseType> that test_type can    *)
(* return for it: the same handler with the same captures in every run,    *)
(* also when several patterns of the role match the step's text.           *)
(***************************************************************************)
C16_OneResolution ==
    pc = "step" /\ ti <= Len(CurSteps) =>
        Cardinality(test_type(TheSteps, CurSteps[ti])) = 1

\* the notifications of execution x about the scenario and its steps
ScenarioNotes(x) ==
    LET Mine(e) == /\ e.exec = x
                   /\ e.ev \in {"visit_scenario", "visit_step", "visit_step_result",
                                 "visit_scenario_end"}
    IN SelectSeq(trace, Mine)
\* the steps execution x has to run: background and scenario
StepsOfExec(x) ==
    LET i == CHOOSE j \in Idx : Is(j, "visit_scenario") /\ trace[j].exec = x
    IN StepsOf(feature_files[trace[i].file].feature,
               ScenarioAt(<<trace[i].file, trace[i].rule, trace[i].scen>>))
HasReturned(x) == \E j \in Idx : Is(j, "return") /\ trace[j].exec = x
\* scenario start, then step and result for each step in order, then the end
InScenarioOrder(x) ==
    LET notes == ScenarioNotes(x)
        n == Len(StepsOfExec(x))
    IN /\ Len(notes) <= 2 * n + 2
       /\ HasReturned(x) => Len(notes) = 2 * n + 2
       /\ \A m \in 1..Len(notes) :
             IF m = 1 THEN notes[m].ev = "visit_scenario"
             ELSE IF m = 2 * n + 2 THEN notes[m].ev = "visit_scenario_end"
             ELSE IF m % 2 = 0
                  THEN notes[m].ev = "visit_step" /\ notes[m].step = m \div 2
                  ELSE notes[m].ev = "visit_step_result" /\ notes[m].step = (m - 1) \div 2
\* the events of file f, and those of its rule r
OfFile(f) == {i \in Idx : trace[i].file = f}
OfRule(f, r) == {i \in Idx : trace[i].file = f /\ trace[i].rule = r}
\* of the events S, the first is e and no other is; the last is end, once
\* left, and no other is
Bracketed(S, e, end, left) ==
    /\ S # {} => \E i \in S : Is(i, e)
    /\ \A i \in S : Is(i, e) => \A j \in S : i <= j
    /\ \A i \in S : Is(i, end) => left /\ \A j \in S : j <= i
    /\ left => \E i \in S : Is(i, end)

(***************************************************************************)
(* C17: notification protocol.  visit_start is the first notification,     *)
(* and when run() has returned visit_finish is the last and is the only    *)
(* one; an execution reports visit_scenario, then for each of its steps,   *)
(* in order, visit_step and one visit_step_result for that step, then      *)
(* visit_scenario_end; all that is reported for a parsed feature lies      *)
(* between its one visit_feature and its one visit_feature_end, and all    *)
(* that is reported for the scenarios of a rule between its one            *)
(* visit_rule and its one visit_rule_end, every rule having both.          *)
(***************************************************************************)
C17_NotificationProtocol ==
    /\ trace # <<>> => Is(1, "visit_start")
    /\ \A i \in Idx : Is(i, "visit_start") => i = 1
    /\ \A i \in Idx : Is(i, "visit_finish") => i = Len(trace) /\ pc = "done"
    /\ pc = "done" => /\ Is(Len(trace), "visit_finish")
                      /\ \A x \in 1..exec : HasReturned(x)
    /\ \A x \in 1..exec : InScenarioOrder(x)
    /\ \A i \in Idx : trace[i].exec > 0 => feature_files[trace[i].file].ok
    /\ \A f \in 1..Len(feature_files) :
          feature_files[f].ok =>
              /\ Bracketed(OfFile(f), "visit_feature", "visit_feature_end", fi > f)
              /\ \A r \in 1..Len(feature_files[f].feature.rules) :
                    /\ Bracketed(OfRule(f, r), "visit_rule", "visit_rule_end",
                                 fi > f \/ (fi = f /\ (ri > r \/ (ri = r /\ pc = "rules"))))
                    /\ \A i \in OfRule(f, r) :
                          Is(i, "visit_rule") =>
                              \A j \in OfRule(f, 0) : trace[j].exec > 0 => j < i

\* a finished run that went through a rule and reported a second step and
\* the notice that the scenario is skipped
C17_Witness ==
    /\ pc = "done"
    /\ \E i, j, k \in Idx :
          /\ Is(i, "visit_rule_end")
          /\ Is(j, "visit_step_result") /\ trace[j].step = 2
          /\ Is(k, "visit_scenario_skipped")

IsNotice(i) == Is(i, "visit_scenario_skipped")

(***************************************************************************)
(* C18: visit_scenario_skipped is called at most once in a scenario        *)
(* execution, and only at the step with which the execution starts to      *)
(* skip: right after that step was reported Unimplemented or Skipped, no   *)
(* step before it having been reported other than Pass.                    *)
(***************************************************************************)
C18_NoticeOnceWhenCascadeBegins ==
    \A i \in Idx :
        IsNotice(i) =>
            /\ \A j \in Idx : IsNotice(j) /\ trace[i].exec = trace[j].exec => i = j
            /\ i > 1
            /\ Is(i - 1, "visit_step_result")
            /\ trace[i - 1].exec = trace[i].exec
            /\ trace[i - 1].step = trace[i].step
            /\ trace[i - 1].res.kind \in {"Unimplemented", "Skipped"}
            /\ \A j \in Idx :
                  Is(j, "visit_step_result") /\ trace[j].exec = trace[i].exec
                      /\ trace[j].step < trace[i].step
                  => trace[j].res.kind = "Pass"

\* the notice was given at the second step, after a step that passed, and
\* a later step without handler was reported without another notice
C18_Witness ==
    \E i, j \in Idx :
        /\ IsNotice(i) /\ trace[i].step = 2
        /\ Is(j, "visit_step_result") /\ trace[j].exec = trace[i].exec
        /\ trace[j].step = 3 /\ trace[j].res.kind = "Unimplemented"
        /\ pc = "step" /\ ti = 4

\* where execution x reported e, or called T::default()
At(x, e) == CHOOSE i \in Idx : Is(i, e) /\ trace[i].exec = x
HasEvent(x, e) == \E i \in Idx : Is(i, e) /\ trace[i].exec = x
HookPanicked(x) ==
    \E i \in Idx : /\ Is(i, "panic") /\ trace[i].exec = x
                   /\ trace[i].arg[1] \in {"before", "after"}
WorldOk(x) ==
    HasEvent(x, "world_default") /\ ~\E i \in Idx : WorldFailed(i) /\ trace[i].exec = x
\* execution x is not in its loop over the steps any more
Over(x) == x < exec \/ pc # "step"
\* events s+1 .. s+Len(fns) are the calls of the hooks e, each once, in list order
CalledInOrder(x, e, fns, s) ==
    /\ Cardinality({i \in Idx : Is(i, e) /\ trace[i].exec = x}) = Len(fns)
    /\ \A k \in 1..Len(fns) :
          /\ s + k \in Idx
          /\ Is(s + k, e)
          /\ trace[s + k].exec = x
          /\ trace[s + k].arg = <<k, fns[k]>>
\* the before hooks: after visit_scenario, before T::default()
BeforeInOrder(x) ==
    /\ CalledInOrder(x, "before", Fns(before_fns), At(x, "visit_scenario"))
    /\ HasEvent(x, "world_default")
    /\ At(x, "world_default") = At(x, "visit_scenario") + Len(Fns(before_fns)) + 1
\* the after hooks: after the last step result, before visit_scenario_end
AfterInOrder(x) ==
    /\ HasEvent(x, "visit_scenario_end")
    /\ LET s == At(x, "visit_scenario_end") - Len(Fns(after_fns)) - 1
       IN /\ CalledInOrder(x, "after", Fns(after_fns), s)
          /\ \A i \in Idx :
                trace[i].exec = x
                    /\ trace[i].ev \in {"visit_step", "call", "visit_step_result",
                                         "visit_scenario_skipped", "world_default"}
                => i <= s
          /\ Cardinality({i \in Idx : Is(i, "visit_step_result") /\ trace[i].exec = x})
               = Len(StepsOfExec(x))
\* the hooks up to the one that panicked were called, in order, and no more
StoppedAtPanic(x) ==
    LET p == CHOOSE i \in Idx : Is(i, "panic") /\ trace[i].exec = x
        e == trace[p].arg[1]
        k == trace[p].arg[2]
        fns == IF e = "before" THEN Fns(before_fns) ELSE Fns(after_fns)
    IN /\ pc = "aborted" /\ p = Len(trace)
       /\ CalledInOrder(x, e, SubSeq(fns, 1, k), p - k - 1)
       /\ e = "before" => ~HasEvent(x, "world_default")
       /\ ~HasEvent(x, "visit_scenario_end")

\* C19, as claimed: in every scenario execution every before hook is
\* called exactly once, in list order, after visit_scenario and before
\* T::default(); and when the State was made every after hook is called
\* exactly once, in list order, after the last step result and before
\* visit_scenario_end, whatever the steps' results.
C19_EveryHookOnce ==
    \A x \in 1..exec :
        /\ BeforeInOrder(x)
        /\ WorldOk(x) /\ Over(x) => AfterInOrder(x)

\* C19, as amended: the same of every scenario execution in which no hook
\* panics; the panic of a hook is not caught: the hooks of the list up to
\* that one have been called, in list order, no hook is called after it,
\* the State is not made if it was a before hook, visit_scenario_end is
\* not reported and the run is over.
C19_EveryHookOnceUnlessOnePanics ==
    \A x \in 1..exec :
        IF HookPanicked(x)
        THEN StoppedAtPanic(x)
        ELSE /\ BeforeInOrder(x)
             /\ WorldOk(x) /\ Over(x) => AfterInOrder(x)

\* the first row of an outline failed at a step: both before hooks were
\* called before the State was made, the after hook after the result
C19_Witness ==
    \E i \in Idx :
        /\ Is(i, "return") /\ ~trace[i].arg /\ trace[i].row = 1
        /\ Len(Fns(before_fns)) = 2 /\ Len(Fns(after_fns)) = 1
        /\ BeforeInOrder(trace[i].exec)
        /\ AfterInOrder(trace[i].exec)
        /\ Is(i - 2, "after")

\* T::default() or a hook panicked
Panicked == \E i \in Idx : Is(i, "panic")
\* run() has returned after visit_finish, every file of the list having
\* been opened once, in the order of the list
Finished ==
    /\ pc = "done"
    /\ Is(Len(trace), "visit_finish")
    /\ \A f \in 1..Len(feature_files) :
          Cardinality({i \in Idx : Opened(i) /\ trace[i].file = f}) = 1
    /\ \A i, j \in Idx : i < j /\ Opened(i) /\ Opened(j) => trace[i].file < trace[j].file

PatternMatch == Returned("test_type") /\ fn_call.ret.some /\ fn_call.ret.v.kind = "Regex"
\* the pattern of the regex bag whose handler was returned
MatchedRegex ==
    (CHOOSE e \in regex_bag_for(fn_call.args.steps, fn_call.args.step.ty) :
         e[2] = fn_call.ret.v.t)[1]
\* where the pattern's literal is first found in the step's text
FirstAt(text, lit) ==
    CHOOSE i \in Occurrences(text, lit) : \A j \in Occurrences(text, lit) : i <= j
\* the text goes on with s from place n
GoesOn(text, n, s) ==
    /\ n + Len(s) - 1 <= Len(text)
    /\ SubSeq(text, n, n + Len(s) - 1) = s
\* element 1 of the captures is the empty string exactly when the group
\* that may be left out took no part, and is what the group matched otherwise
OptionalGroup(text, regex, matches) ==
    regex.opt.some =>
        /\ Len(matches) = 2
        /\ matches[2] = IF GoesOn(text, FirstAt(text, regex.lit) + Len(regex.lit), regex.opt.v)
                        THEN regex.opt.v
                        ELSE <<>>

\* C21, as claimed: element 0 of the captures of a pattern match is the
\* full text of the step, and a group that took no part gives the empty
\* string.
C21_GroupZeroIsStepText ==
    PatternMatch =>
        /\ fn_call.ret.v.matches[1] = fn_call.args.step.value
        /\ OptionalGroup(fn_call.args.step.value, MatchedRegex, fn_call.ret.v.matches)

\* C21, as amended: element 0 of the captures of a pattern match is the
\* whole match, the part of the step's text that the pattern matched from
\* the first place where it matches: the full text of the step only when
\* the match begins with the text and ends with it; and a group that took
\* no part gives the empty string.
C21_GroupZeroIsWholeMatch ==
    PatternMatch =>
        LET text == fn_call.args.step.value
            regex == MatchedRegex
            matches == fn_call.ret.v.matches
            at == FirstAt(text, regex.lit)
        IN /\ Len(matches) = IF regex.group \/ regex.opt.some THEN 2 ELSE 1
           /\ GoesOn(text, at, matches[1])
           /\ GoesOn(matches[1], 1, regex.lit)
           /\ regex.group => at + Len(matches[1]) - 1 = Len(text)
           /\ ~regex.group /\ ~regex.opt.some => matches[1] = regex.lit
           /\ regex.opt.some => matches[1] = regex.lit \o matches[2]
           /\ (matches[1] = text) <=> (at = 1 /\ Len(matches[1]) = Len(text))
           /\ OptionalGroup(text, regex, matches)

\* the pattern with the group that may be left out matched inside the text
\* "<x<": the captures are "x" and the empty string
C21_Witness ==
    /\ PatternMatch
    /\ fn_call.args.step.value = <<"<", "x", "<">>
    /\ fn_call.ret.v.t = "may_close"
    /\ fn_call.ret.v.matches = <<<<"x">>, <<>>>>

(***************************************************************************)
(* C22: execution order.                                                   *)
(***************************************************************************)
\* the steps that visit_step was given in execution x, in the order given
StepsRun(x) ==
    LET Mine(e) == e.exec = x /\ e.ev = "visit_step"
        notes == SelectSeq(trace, Mine)
    IN [m \in 1..Len(notes) |-> notes[m].arg]
\* the feature's background steps followed by the steps of the scenario
\* that event i belongs to
BackgroundThenOwn(i) ==
    LET feature == feature_files[trace[i].file].feature
        own == ScenarioAt(<<trace[i].file, trace[i].rule, trace[i].scen>>).steps
    IN IF feature.background.some THEN feature.background.v.steps \o own ELSE own
IsPrefix(s, t) == Len(s) <= Len(t) /\ SubSeq(t, 1, Len(s)) = s
\* document order of two places: file, then rule (0: the feature's own
\* scenarios), then scenario, then row of the examples
Earlier(a, b) ==
    \/ a.file < b.file
    \/ a.file = b.file /\ a.rule < b.rule
    \/ a.file = b.file /\ a.rule = b.rule /\ a.scen < b.scen
    \/ a.file = b.file /\ a.rule = b.rule /\ a.scen = b.scen /\ a.row < b.row
\* event i, begins an execution only after the one before has returned, and
\* is otherwise the next event of the execution that is going on
OneAtATime(i) ==
    i > 1 /\ trace[i].exec > 0 =>
        IF Is(i, "visit_scenario")
        THEN trace[i - 1].exec = 0 \/ Is(i - 1, "return")
        ELSE trace[i - 1].exec = trace[i].exec /\ ~Is(i - 1, "return")

\* C22: the steps of every scenario execution are the feature's background
\* steps in order followed by the scenario's own steps in order, also in a
\* rule; the executions come in document order of file, rule (the feature's
\* own scenarios before every rule's), scenario and example row; and an
\* execution ends before the next one starts.
C22_ExecutionOrder ==
    \A i \in Idx :
        /\ OneAtATime(i)
        /\ Is(i, "visit_step") =>
               /\ trace[i].step <= Len(BackgroundThenOwn(i))
               /\ trace[i].arg = BackgroundThenOwn(i)[trace[i].step]
               /\ IF trace[i].step = 1
                  THEN Is(i - 1, "world_default")
                  ELSE \E j \in 1..(i - 1) :
                          /\ Is(j, "visit_step")
                          /\ trace[j].exec = trace[i].exec
                          /\ trace[j].step = trace[i].step - 1
        /\ Is(i, "return") => StepsRun(trace[i].exec) = BackgroundThenOwn(i)
        /\ Is(i, "visit_scenario") =>
               \A j \in 1..(i - 1) :
                   Is(j, "visit_scenario") =>
                       /\ trace[j].exec < trace[i].exec
                       /\ Earlier(trace[j], trace[i])

\* a run is over in which a scenario with two steps of its own ran after the
\* background, a row of examples ran after another, and a rule's scenario
\* ran after the feature's own
C22_Witness ==
    /\ pc = "done"
    /\ \E i \in Idx :
          /\ Is(i, "return")
          /\ trace[i].rule = 0
          /\ Len(StepsRun(trace[i].exec)) = 3
          /\ StepsRun(trace[i].exec)[1] = GivenThing
          /\ StepsRun(trace[i].exec)[2] # StepsRun(trace[i].exec)[3]
    /\ \E i \in Idx : Is(i, "return") /\ trace[i].row = 2
    /\ \E i \in Idx : Is(i, "return") /\ trace[i].rule = 2

(***************************************************************************)
(* C23: how the cascade starts decides the notice.                         *)
(***************************************************************************)
\* the result with which its execution starts to skip
BeginsCascade(i) == IsCascade(i) /\ ~CascadeBefore(i)
NoticesOf(x) == {j \in Idx : IsNotice(j) /\ trace[j].exec = x}

\* C23: a scenario execution whose skip cascade is begun by a step reported
\* Unimplemented or Skipped gives visit_scenario_skipped exactly once, right
\* after that result; one whose cascade is begun by a step reported Fail
\* never gives it, whatever its later steps are.
C23_CascadeStartDecidesNotice ==
    \A i \in Idx :
        IsCascade(i) =>
            (~CascadeBefore(i) =>
                IF trace[i].res.kind = "Fail"
                THEN NoticesOf(trace[i].exec) = {}
                ELSE NoticesOf(trace[i].exec) = {i + 1})

\* one execution failed at its second step and gave no notice; the next
\* had no handler for its second step and gave the notice once
C23_Witness ==
    /\ pc = "done"
    /\ \E i \in Idx :
          /\ BeginsCascade(i)
          /\ trace[i].res.kind = "Fail"
          /\ \E j \in Idx : Is(j, "visit_step_result") /\ trace[j].exec = trace[i].exec
                               /\ trace[j].step > trace[i].step
          /\ NoticesOf(trace[i].exec) = {}
    /\ \E i \in Idx :
          /\ BeginsCascade(i)
          /\ trace[i].res.kind = "Unimplemented"
          /\ NoticesOf(trace[i].exec) = {i + 1}

(***************************************************************************)
(* C24: a hook made by before! or after! without a tag rule calls its      *)
(* closure for every scenario it is called with, whether the scenario has  *)
(* tags or not.                                                            *)
(***************************************************************************)
C24_NoRuleFiresAlways ==
    Returned("before") /\ ~fn_call.args.tagrule.some =>
        fn_call.ret = <<"scenario_closure">>

====
